---- MODULE Spec2Model ----
(***************************************************************************)
(* Credentialing helpdesk (src/app.py, src/models.py, src/config.py):      *)
(* the ticket table, the comment table, the wall clock, the mail handed    *)
(* to send_email and the answer of the last request handler.               *)
(*                                                                         *)
(* Time is counted in whole hours.  `clock` is the UTC instant;            *)
(* datetime.utcnow() reads it as it is, datetime.now(PK_TZ) reads it       *)
(* shifted by the Asia/Karachi offset.  A DateTime column keeps the wall   *)
(* clock fields of what is written to it and drops the zone.               *)
(***************************************************************************)
EXTENDS Integers, Sequences, FiniteSets, TLC

VARIABLES tickets, comments, clock, outbox, reminders, response, users, sink, inflight

vars == <<tickets, comments, clock, outbox, reminders, response, users, sink, inflight>>

----------------------------------------------------------------------------
(* Bounds of the model *)

MaxTickets == 1
MaxComments == 1
MaxClock == 8
MaxReminders == 2
MaxUsers == 3
MaxInflight == 1

TickSteps == {4}

----------------------------------------------------------------------------
(* Users: two self-registered staff accounts and the seeded admin *)

Staff == {1, 2}
Admins == {3}
Users == Staff \cup Admins

Role(u) == IF u \in Admins THEN "admin" ELSE "staff"

MAIL_USERNAME == "credentialing@docsmedicalbilling.com"

EmailOf(u) ==
    CASE u = 1 -> "staff1@example.com"
      [] u = 2 -> "staff2@example.com"
      [] OTHER -> "credentialing@docsmedicalbilling.com"

----------------------------------------------------------------------------
(* Dates and times, in hours *)

timedelta(days, hours) == days * 24 + hours

PK_TZ == timedelta(0, 5)

utcnow == clock
NowPK == clock + PK_TZ

\* make_naive: an aware datetime is moved to PKT and loses its zone; a naive
\* one is returned as it is.  dt = [wall, offset] with offset = -1 for naive.
Naive(w) == [wall |-> w, offset |-> -1]
Aware(w, off) == [wall |-> w, offset |-> off]

make_naive(dt) ==
    IF dt.offset # -1
    THEN Naive(dt.wall - dt.offset + PK_TZ)
    ELSE dt

\* what a DateTime column gives back for a written datetime
Stored(dt) == dt.wall

----------------------------------------------------------------------------
(* Strings that the code takes apart are sequences of one-character strings *)

RECURSIVE LastDot(_, _)
\* index of the last "." of s at or before position i, 0 when there is none
LastDot(s, i) ==
    IF i = 0 THEN 0
    ELSE IF s[i] = "." THEN i
    ELSE LastDot(s, i - 1)

LowerChar(c) ==
    CASE c = "P" -> "p"
      [] c = "D" -> "d"
      [] c = "F" -> "f"
      [] c = "E" -> "e"
      [] c = "X" -> "x"
      [] OTHER -> c

Lower(s) == [i \in 1..Len(s) |-> LowerChar(s[i])]

ALLOWED_EXTENSIONS ==
    { <<"p","d","f">>, <<"p","n","g">>, <<"j","p","g">>, <<"j","p","e","g">>,
      <<"d","o","c">>, <<"d","o","c","x">>, <<"x","l","s">>, <<"x","l","s","x">> }

\* filename.rsplit(".", 1)[1]
Extension(filename) ==
    SubSeq(filename, LastDot(filename, Len(filename)) + 1, Len(filename))

\* variant: any name with a dot is allowed
allowed_file_AnyDot(filename) ==
    LastDot(filename, Len(filename)) # 0

allowed_file(filename) ==
    /\ LastDot(filename, Len(filename)) # 0
    /\ Lower(Extension(filename)) \in ALLOWED_EXTENSIONS

\* werkzeug's secure_filename: path separators become "_", then dots and
\* underscores are stripped from both ends
RECURSIVE StripEnds(_, _)
StripEnds(s, drop) ==
    IF s = <<>> THEN s
    ELSE IF s[1] \in drop THEN StripEnds(Tail(s), drop)
    ELSE IF s[Len(s)] \in drop THEN StripEnds(SubSeq(s, 1, Len(s) - 1), drop)
    ELSE s

secure_filename(filename) ==
    StripEnds([i \in 1..Len(filename) |->
                  IF filename[i] = "/" THEN "_" ELSE filename[i]], {".", "_"})

\* variant: the text is taken as it was typed
strip_Untrimmed(s) == s

\* str.strip()
strip(s) == StripEnds(s, {" "})

NoFile == <<>>

FileInputs ==
    { NoFile,
      <<"r",".","P","D","F">>,
      <<"m","a","l","w","a","r","e",".","e","x","e">>,
      <<"r",".","p","d","f",".","e","x","e">>,
      <<"p","d","f">> }

MessageInputs == { <<>>, <<" ">>, <<" ","o","k"," ">> }

PriorityInputs == { "", "Urgent", "7 Days", "15 Days", "Low" }

StatusInputs == { "Open", "In Progress", "Solved", "Closed", "Approved" }

ActionInputs == { "approve_close", "reopen" }

\* str.lower() of a status
LowerStatus(s) ==
    CASE s = "Open" -> "open"
      [] s = "In Progress" -> "in progress"
      [] s = "Solved" -> "solved"
      [] s = "Closed" -> "closed"
      [] s = "Approved" -> "approved"
      [] OTHER -> s

----------------------------------------------------------------------------
(* SLA deadlines *)

\* variant: calculate_due_time without its "15 Days" branch
calculate_due_time_NoFifteen(priority) ==
    IF priority = "Urgent" THEN Naive(NowPK + timedelta(0, 2))
    ELSE IF priority = "7 Days" THEN Naive(NowPK + timedelta(7, 0))
    ELSE Naive(NowPK + timedelta(7, 0))

\* calculate_due_time: naive PKT now plus the offset of the priority
calculate_due_time(priority) ==
    IF priority = "Urgent" THEN Naive(NowPK + timedelta(0, 2))
    ELSE IF priority = "7 Days" THEN Naive(NowPK + timedelta(7, 0))
    ELSE IF priority = "15 Days" THEN Naive(NowPK + timedelta(15, 0))
    ELSE Naive(NowPK + timedelta(7, 0))

\* variant: create_ticket takes the default of calculate_due_time
CreateOffset_SevenDayDefault(priority) ==
    IF priority = "Urgent" THEN timedelta(0, 2)
    ELSE IF priority = "7 Days" THEN timedelta(7, 0)
    ELSE timedelta(7, 0)

\* variant: create_ticket subtracts the offset
CreateOffset_Subtracted(priority) ==
    IF priority = "Urgent" THEN 0 - timedelta(0, 2)
    ELSE IF priority = "7 Days" THEN 0 - timedelta(7, 0)
    ELSE 0 - timedelta(3, 0)

\* the offset create_ticket adds to created_at
CreateOffset(priority) ==
    IF priority = "Urgent" THEN timedelta(0, 2)
    ELSE IF priority = "7 Days" THEN timedelta(7, 0)
    ELSE timedelta(3, 0)

\* the dashboards' overdue test for one ticket at the naive PKT instant now
Overdue(t, now) ==
    /\ make_naive(Naive(t.due_time)).wall < now.wall
    /\ LowerStatus(t.status) \notin {"closed", "approved"}

DashboardNow == make_naive(Aware(NowPK, PK_TZ))

pending_statuses == {"Open", "In Progress", "Solved"}

\* variant: a ticket already reminded is not selected again
Selected_Once(t, now) ==
    /\ t.status \in {"Open", "In Progress", "Solved"}
    /\ t.due_time <= now
    /\ reminders[t.id] = 0

\* the filter of check_ticket_deadlines for one ticket at the instant now
Selected(t, now) ==
    /\ t.status \in pending_statuses
    /\ t.due_time <= now

----------------------------------------------------------------------------
(* Mail and answers *)

\* a mail handed to mail.send; delivered tells whether the send went through
Mail(kind, tid, recipients, delivered) ==
    [kind |-> kind, ticket_id |-> tid, recipients |-> recipients,
     delivered |-> delivered]

\* variant: send_email without its try/except, a failed send ends the request
SendAborts_Uncaught(delivered) == ~delivered

\* whether a send that failed ends the request: the except clause of
\* send_email prints the error and returns
SendAborts(delivered) == FALSE

\* a send of this request raised out of send_email
Aborted(box) == \E i \in 1..Len(box) : SendAborts(box[i].delivered)

\* send_email: nothing is sent to an empty recipient list; sink tells whether
\* mail.send goes through
send_email(box, kind, tid, recipients) ==
    IF Aborted(box) \/ recipients = <<>> THEN box
    ELSE Append(box, Mail(kind, tid, recipients, sink))

\* what a handler answers: the message it flashes and where it redirects to
\* ("404" when get_or_404 aborts the request)
\* (action is the action a staff-action request asked for)
Answer(op, action, flash, redirect) ==
    [op |-> op, action |-> action, flash |-> flash, redirect |-> redirect]

\* what the request answers after its mails: the handler's answer, or a
\* server error when a send raised out of send_email
Reply(box, answer) ==
    IF Aborted(box) THEN Answer(answer.op, answer.action, "", "500")
    ELSE answer

TicketIds == 1..Len(tickets)

\* Ticket.query.get_or_404 is asked for an existing id or for the next one
IdInputs == 1..(Len(tickets) + 1)

Init ==
    /\ tickets = <<>>
    /\ comments = <<>>
    /\ clock = 0
    /\ outbox = <<>>
    /\ reminders = <<>>
    /\ response = Answer("boot", "", "", "")
    /\ users = [u \in Users |-> [email |-> EmailOf(u), role |-> Role(u)]]
    /\ sink = TRUE
    /\ inflight = {}

----------------------------------------------------------------------------
(* Request handlers.  Each is one transaction: the ticket is read, the      *)
(* request is validated, the row is written and the mail is handed over.    *)

\* all([practice_name, provider_name, subject_text, description, priority])
AllFields(form, priority) ==
    /\ form.practice_name # ""
    /\ form.provider_name # ""
    /\ form.subject # ""
    /\ form.description # ""
    /\ priority # ""

NewTicket(u, form, priority, created_at, due_time, filename) ==
    [id |-> Len(tickets) + 1,
     staff_id |-> u,
     practice_name |-> form.practice_name,
     provider_name |-> form.provider_name,
     subject |-> form.subject,
     description |-> form.description,
     priority |-> priority,
     created_at |-> Stored(created_at),
     due_time |-> Stored(due_time),
     attachment_filename |-> filename,
     assigned_to |-> <<>>,
     status |-> "Open"]

Rejected(answer) ==
    /\ response' = answer
    /\ outbox' = <<>>
    /\ UNCHANGED <<tickets, comments, clock, reminders, users, sink, inflight>>

\* POST /ticket/create
create_ticket(u, form, priority, attachment) ==
    LET created_at == Aware(NowPK, PK_TZ)
        due_time == Aware(created_at.wall + CreateOffset(priority), PK_TZ)
        tid == Len(tickets) + 1
    IN
    IF Role(u) # "staff"
    THEN Rejected(Answer("create_ticket", "",
                         "Only staff can create tickets.", "staff_dashboard"))
    ELSE IF ~AllFields(form, priority)
    THEN Rejected(Answer("create_ticket", "",
                         "All fields including priority are required.",
                         "create_ticket"))
    ELSE IF attachment # NoFile /\ ~allowed_file(attachment)
    THEN Rejected(Answer("create_ticket", "",
                         "Invalid attachment type.", "create_ticket"))
    ELSE
        /\ Len(tickets) < MaxTickets
        /\ tickets' = Append(tickets,
              NewTicket(u, form, priority, created_at, due_time,
                        IF attachment # NoFile
                        THEN secure_filename(attachment) ELSE NoFile))
        /\ reminders' = Append(reminders, 0)
        /\ outbox' = send_email(
                        send_email(<<>>, "[New Ticket Created]", tid,
                                   <<MAIL_USERNAME>>),
                        "[Ticket Confirmation]", tid, <<EmailOf(u)>>)
        /\ response' = Reply(outbox', Answer("create_ticket", "",
                              "Ticket created successfully.", "staff_dashboard"))
        /\ UNCHANGED <<comments, clock, users, sink, inflight>>

\* variant: an admin may also close
AdminStatuses_WithClosed == {"Open", "In Progress", "Solved", "Closed"}

\* variant: an admin may also set the legacy label
AdminStatuses_WithApproved == {"Open", "In Progress", "Solved", "Approved"}

\* the statuses admin_update_status accepts
AdminStatuses == {"Open", "In Progress", "Solved"}

\* variant: the role test lets staff accounts through
NotAdmin_StaffPasses(u) == Role(u) \notin {"admin", "staff"}

\* the role test of the admin handlers
NotAdmin(u) == Role(u) # "admin"

\* variant: the update goes to the operational mailbox only
UpdateRecipients_MailboxOnly(t) == <<MAIL_USERNAME>>

\* the recipients of the status update mail
UpdateRecipients(t) == <<EmailOf(t.staff_id), MAIL_USERNAME>>

\* variant: the status of a Closed ticket is left to its owner's reopen
admin_update_status_NotFromClosed(u, tid, new_status) ==
    IF NotAdmin(u)
    THEN Rejected(Answer("admin_update_status", "",
                         "Not authorized.", "index"))
    ELSE IF tid \notin TicketIds
    THEN Rejected(Answer("admin_update_status", "", "", "404"))
    ELSE IF new_status \notin AdminStatuses \/ tickets[tid].status = "Closed"
    THEN Rejected(Answer("admin_update_status", "",
                         "Invalid status.", "admin_dashboard"))
    ELSE
        /\ tickets' = [tickets EXCEPT ![tid].status = new_status]
        /\ outbox' = send_email(<<>>, "[Ticket Update]", tid,
                        UpdateRecipients(tickets[tid]))
        /\ response' = Reply(outbox', Answer("admin_update_status", "",
                              "Ticket status updated.", "admin_dashboard"))
        /\ UNCHANGED <<comments, clock, reminders, users, sink, inflight>>

\* POST /admin/ticket/<ticket_id>/status
admin_update_status(u, tid, new_status) ==
    IF NotAdmin(u)
    THEN Rejected(Answer("admin_update_status", "",
                         "Not authorized.", "index"))
    ELSE IF tid \notin TicketIds
    THEN Rejected(Answer("admin_update_status", "", "", "404"))
    ELSE IF new_status \notin AdminStatuses
    THEN Rejected(Answer("admin_update_status", "",
                         "Invalid status.", "admin_dashboard"))
    ELSE
        /\ tickets' = [tickets EXCEPT ![tid].status = new_status]
        /\ outbox' = send_email(<<>>, "[Ticket Update]", tid,
                        UpdateRecipients(tickets[tid]))
        /\ response' = Reply(outbox', Answer("admin_update_status", "",
                              "Ticket status updated.", "admin_dashboard"))
        /\ UNCHANGED <<comments, clock, reminders, users, sink, inflight>>

\* variant: an approve_close is also taken from Closed
CanApproveClose_FromClosed(status) ==
    status \in {"Solved", "In Progress", "Open", "Closed"}

\* the statuses from which the owner may approve and close
CanApproveClose(status) == status \in {"Solved", "In Progress", "Open"}

\* variant: a reopen is also taken from Open
CanReopen_FromOpen(status) == status \in {"Solved", "Closed", "Open"}

\* the statuses from which the owner may reopen
CanReopen(status) == status \in {"Solved", "Closed"}

\* variant: the ownership test asks for the staff role only
MayStaffAct_AnyStaff(u, t) == ~(Role(u) # "staff")

\* the ownership test of staff_action
MayStaffAct(u, t) == ~(Role(u) # "staff" \/ t.staff_id # u)

\* POST /ticket/<ticket_id>/staff-action
staff_action(u, tid, action) ==
    IF tid \notin TicketIds
    THEN Rejected(Answer("staff_action", action, "", "404"))
    ELSE IF ~MayStaffAct(u, tickets[tid])
    THEN Rejected(Answer("staff_action", action,
                         "Not authorized.", "index"))
    ELSE IF action = "approve_close" /\ CanApproveClose(tickets[tid].status)
    THEN
        /\ tickets' = [tickets EXCEPT ![tid].status = "Closed"]
        /\ outbox' = send_email(<<>>, "[Ticket Closed]", tid, <<MAIL_USERNAME>>)
        /\ response' = Reply(outbox', Answer("staff_action", action,
                              "Ticket closed.", "view_ticket"))
        /\ UNCHANGED <<comments, clock, reminders, users, sink, inflight>>
    ELSE IF action = "reopen" /\ CanReopen(tickets[tid].status)
    THEN
        /\ tickets' = [tickets EXCEPT
                          ![tid].status = "In Progress",
                          ![tid].due_time =
                              Stored(calculate_due_time(tickets[tid].priority))]
        /\ outbox' = send_email(<<>>, "[Ticket Reopened]", tid, <<MAIL_USERNAME>>)
        /\ response' = Reply(outbox', Answer("staff_action", action,
                              "Ticket reopened and set to In Progress.",
                              "view_ticket"))
        /\ UNCHANGED <<comments, clock, reminders, users, sink, inflight>>
    ELSE Rejected(Answer("staff_action", action,
                         "Invalid action for current status.", "view_ticket"))

\* POST /ticket/<ticket_id>/comment
add_comment(u, tid, text) ==
    LET message == strip(text) IN
    IF tid \notin TicketIds
    THEN Rejected(Answer("add_comment", "", "", "404"))
    ELSE IF message = <<>>
    THEN Rejected(Answer("add_comment", "",
                         "Comment cannot be empty.", "view_ticket"))
    ELSE
        /\ Len(comments) < MaxComments
        /\ comments' = Append(comments,
              [id |-> Len(comments) + 1, ticket_id |-> tid, user_id |-> u,
               message |-> message])
        /\ outbox' = <<>>
        /\ response' = Answer("add_comment", "",
                              "Comment posted successfully.", "view_ticket")
        /\ UNCHANGED <<tickets, clock, reminders, users, sink, inflight>>

\* POST /admin/ticket/<ticket_id>/assign
admin_update_assigned(u, tid, name) ==
    LET assigned_to == strip(name) IN
    IF NotAdmin(u)
    THEN Rejected(Answer("admin_update_assigned", "", "Not authorized.", "index"))
    ELSE IF tid \notin TicketIds
    THEN Rejected(Answer("admin_update_assigned", "", "", "404"))
    ELSE
        /\ tickets' = [tickets EXCEPT ![tid].assigned_to = assigned_to]
        /\ outbox' = <<>>
        /\ response' = Answer("admin_update_assigned", "",
                              "Ticket assigned.", "admin_dashboard")
        /\ UNCHANGED <<comments, clock, reminders, users, sink, inflight>>

\* dt.astimezone(PK_TZ)
astimezone_PK(dt) == Aware(dt.wall - dt.offset + PK_TZ, PK_TZ)

\* the row as view_ticket leaves it in the session: the stored naive times
\* are taken for UTC and moved to Pakistan time
ViewedRow(t) ==
    [t EXCEPT !.created_at = Stored(astimezone_PK(Aware(t.created_at, 0))),
              !.due_time = Stored(astimezone_PK(Aware(t.due_time, 0)))]

\* variant: the request commits the row it changed for display
SessionEnd_Commits(tid, row) == [tickets EXCEPT ![tid] = row]

\* the ticket table after a request that changed a row in the session and
\* did not commit: the session is dropped with the request
SessionEnd(tid, row) == tickets

\* GET /ticket/<ticket_id>
view_ticket(u, tid) ==
    IF tid \notin TicketIds
    THEN Rejected(Answer("view_ticket", "", "", "404"))
    ELSE
        /\ tickets' = SessionEnd(tid, ViewedRow(tickets[tid]))
        /\ outbox' = <<>>
        /\ response' =
              IF Role(u) = "staff" /\ tickets[tid].staff_id # u
              THEN Answer("view_ticket", "",
                          "You are not allowed to view this ticket.",
                          "staff_dashboard")
              ELSE Answer("view_ticket", "", "", "view_ticket.html")
        /\ UNCHANGED <<comments, clock, reminders, users, sink, inflight>>

----------------------------------------------------------------------------
(* The reminder job *)

RECURSIVE RemindFrom(_, _, _)
\* the loop of check_ticket_deadlines over the rows the query returned
RemindFrom(i, now, box) ==
    IF i > Len(tickets) THEN box
    ELSE IF Selected(tickets[i], now)
    THEN RemindFrom(i + 1, now,
            send_email(box, "[Reminder]", tickets[i].id,
                       <<EmailOf(tickets[i].staff_id), MAIL_USERNAME>>))
    ELSE RemindFrom(i + 1, now, box)

\* variant: the run puts off the deadline of every ticket it reminds
check_ticket_deadlines_Snoozes ==
    LET now == utcnow IN
    /\ \A i \in TicketIds : reminders[i] < MaxReminders
    /\ outbox' = RemindFrom(1, now, <<>>)
    /\ reminders' = [i \in TicketIds |->
                        IF Selected(tickets[i], now)
                        THEN reminders[i] + 1 ELSE reminders[i]]
    /\ tickets' = [i \in TicketIds |->
                      IF Selected(tickets[i], now)
                      THEN [tickets[i] EXCEPT !.due_time = now + timedelta(1, 0)]
                      ELSE tickets[i]]
    /\ response' = Answer("check_ticket_deadlines", "", "", "")
    /\ UNCHANGED <<comments, clock, users, sink, inflight>>

check_ticket_deadlines ==
    LET now == utcnow IN
    /\ \A i \in TicketIds : reminders[i] < MaxReminders
    /\ outbox' = RemindFrom(1, now, <<>>)
    /\ reminders' = [i \in TicketIds |->
                        IF Selected(tickets[i], now)
                        THEN reminders[i] + 1 ELSE reminders[i]]
    /\ response' = Answer("check_ticket_deadlines", "", "", "")
    /\ UNCHANGED <<tickets, comments, clock, users, sink, inflight>>

\* time passes
Tick ==
    /\ \E d \in TickSteps :
          /\ clock + d <= MaxClock
          /\ clock' = clock + d
    /\ UNCHANGED <<tickets, comments, outbox, reminders, response, users, sink, inflight>>

----------------------------------------------------------------------------

\* the forms posted to /ticket/create: a complete form with every priority, a
\* complete form with every upload, and a form with one required field empty
CompleteForm ==
    [practice_name |-> "x", provider_name |-> "x", subject |-> "x",
     description |-> "x"]

CreateInputs ==
    { [form |-> CompleteForm, priority |-> p, attachment |-> NoFile] :
          p \in PriorityInputs }
    \cup
    { [form |-> CompleteForm, priority |-> "Urgent", attachment |-> a] :
          a \in FileInputs }
    \cup
    { [form |-> [CompleteForm EXCEPT ![k] = ""], priority |-> "Urgent",
       attachment |-> NoFile] :
          k \in {"practice_name", "provider_name", "subject", "description"} }

CreateTicket ==
    \E u \in Users, in \in CreateInputs :
        create_ticket(u, in.form, in.priority, in.attachment)

ChangeStatus ==
    \E u \in Users, tid \in IdInputs, new_status \in StatusInputs :
        admin_update_status(u, tid, new_status)

StaffAction ==
    \E u \in Users, tid \in IdInputs, action \in ActionInputs :
        staff_action(u, tid, action)

AddComment ==
    \E u \in Users, tid \in IdInputs, text \in MessageInputs :
        add_comment(u, tid, text)

Next ==
    \/ CreateTicket
    \/ ChangeStatus
    \/ StaffAction
    \/ AddComment
    \/ check_ticket_deadlines
    \/ Tick

Spec == Init /\ [][Next]_vars

AssignInputs == { <<>>, <<" ","B","o"," ">> }

AssignTo ==
    \E u \in Users, tid \in IdInputs, name \in AssignInputs :
        admin_update_assigned(u, tid, name)

ViewTicket ==
    \E u \in Users, tid \in IdInputs :
        view_ticket(u, tid)

\* the ticket lifecycle together with assignment and the ticket page
NextAll ==
    \/ CreateTicket
    \/ ChangeStatus
    \/ StaffAction
    \/ AddComment
    \/ AssignTo
    \/ ViewTicket
    \/ check_ticket_deadlines
    \/ Tick

SpecAll == Init /\ [][NextAll]_vars

\* the mail server goes down or comes back
SinkChange ==
    /\ sink' = ~sink
    /\ UNCHANGED <<tickets, comments, clock, outbox, reminders, response, users, inflight>>

\* the operations that send mail from a request, with a mail server that may
\* fail
NextMail ==
    \/ CreateTicket
    \/ ChangeStatus
    \/ StaffAction
    \/ Tick
    \/ SinkChange

SpecMail == Init /\ [][NextMail]_vars

----------------------------------------------------------------------------
(* Accounts: self-registration and the init-db command.  A typed form value *)
(* is a sequence of pieces, each one space or a run of other characters.    *)

\* the string a sequence of pieces spells
RECURSIVE Join(_)
Join(pieces) ==
    IF pieces = <<>> THEN "" ELSE pieces[1] \o Join(Tail(pieces))

\* os.environ.get("ADMIN_EMAIL", ...), with the variable unset
admin_email == "credentialing@docsmedicalbilling.com"

EmailInputs ==
    { <<>>,
      <<" ", "staff1@example.com">>,
      <<"staff2@example.com">>,
      <<"staff3@example.com">>,
      <<"credentialing@docsmedicalbilling.com", " ">> }

UsernameInputs == { <<" ">>, <<"staff">> }

PasswordInputs == { "", "Admin@123" }

ConfirmInputs == { "Admin@123", "admin@123" }

\* User.query.filter_by(email=email).first() finds a row
Registered(email) == \E i \in 1..Len(users) : users[i].email = email

\* POST /register: every account it makes has role staff
register(form) ==
    LET email == Join(strip(form.email))
        username == Join(strip(form.username))
        refuse(flash) ==
            /\ response' = Answer("register", "", flash, "register")
            /\ users' = users
    IN  /\ IF email = "" \/ username = "" \/ form.password = ""
              THEN refuse("All fields are required.")
           ELSE IF form.password # form.confirm
              THEN refuse("Passwords do not match.")
           ELSE IF Registered(email)
              THEN refuse("Email already registered.")
           ELSE /\ Len(users) < MaxUsers
                /\ users' = Append(users, [email |-> email, role |-> "staff"])
                /\ response' = Answer("register", "",
                                      "Registration successful. Please login.",
                                      "login")
        /\ UNCHANGED <<tickets, comments, clock, outbox, reminders, sink, inflight>>

\* flask init-db: the admin account is added when no account has its email
init_db ==
    /\ IF ~Registered(admin_email)
          THEN /\ Len(users) < MaxUsers
               /\ users' = Append(users, [email |-> admin_email, role |-> "admin"])
          ELSE users' = users
    /\ response' = Answer("init_db", "", "Database initialized.", "")
    /\ UNCHANGED <<tickets, comments, clock, outbox, reminders, sink, inflight>>

Register ==
    \E email \in EmailInputs, username \in UsernameInputs, password \in PasswordInputs, confirm \in ConfirmInputs :
        register([email |-> email, username |-> username, password |-> password, confirm |-> confirm])

\* the tables exist and hold no account yet
InitUsers ==
    /\ tickets = <<>>
    /\ comments = <<>>
    /\ clock = 0
    /\ outbox = <<>>
    /\ reminders = <<>>
    /\ response = Answer("boot", "", "", "")
    /\ users = <<>>
    /\ sink = TRUE
    /\ inflight = {}

NextUsers ==
    \/ Register
    \/ init_db

SpecUsers == InitUsers /\ [][NextUsers]_vars

----------------------------------------------------------------------------
(* Concurrent requests.  The server answers each request on a thread of    *)
(* its own, with a database session of its own and no lock on the row:     *)
(* staff_action loads the ticket, tests the row it loaded and commits what  *)
(* it set, and other requests commit in between.                           *)

\* staff_action up to Ticket.query.get_or_404: the request holds the row it
\* loaded
staff_action_load(u, tid, action) ==
    IF tid \notin TicketIds
    THEN Rejected(Answer("staff_action", action, "", "404"))
    ELSE
        /\ Cardinality(inflight) < MaxInflight
        /\ inflight' = inflight \cup
              {[user |-> u, action |-> action, ticket |-> tickets[tid]]}
        /\ UNCHANGED <<tickets, comments, clock, outbox, reminders, response, users, sink>>

\* staff_action from its ownership test on: the tests read the loaded row
\* and the commit updates the columns the request set in the stored row
staff_action_commit(r) ==
    LET t == r.ticket
        tid == r.ticket.id
        refuse(flash, redirect) ==
            /\ outbox' = <<>>
            /\ response' = Answer("staff_action", r.action, flash, redirect)
            /\ tickets' = tickets
    IN  /\ r \in inflight
        /\ inflight' = inflight \ {r}
        /\ IF ~MayStaffAct(r.user, t)
              THEN refuse("Not authorized.", "index")
           ELSE IF r.action = "approve_close" /\ CanApproveClose(t.status)
              THEN /\ tickets' = [tickets EXCEPT ![tid].status = "Closed"]
                   /\ outbox' = send_email(<<>>, "[Ticket Closed]", tid,
                                           <<MAIL_USERNAME>>)
                   /\ response' = Reply(outbox', Answer("staff_action", r.action,
                                         "Ticket closed.", "view_ticket"))
           ELSE IF r.action = "reopen" /\ CanReopen(t.status)
              THEN /\ tickets' = [tickets EXCEPT
                                     ![tid].status = "In Progress",
                                     ![tid].due_time =
                                         Stored(calculate_due_time(t.priority))]
                   /\ outbox' = send_email(<<>>, "[Ticket Reopened]", tid,
                                           <<MAIL_USERNAME>>)
                   /\ response' = Reply(outbox', Answer("staff_action", r.action,
                                         "Ticket reopened and set to In Progress.",
                                         "view_ticket"))
           ELSE refuse("Invalid action for current status.", "view_ticket")
        /\ UNCHANGED <<comments, clock, reminders, users, sink>>

StaffLoad ==
    \E u \in Users, tid \in IdInputs, action \in ActionInputs :
        staff_action_load(u, tid, action)

StaffCommit ==
    \E r \in inflight :
        staff_action_commit(r)

\* tickets are created and their status is changed while a staff action is
\* between its load and its commit
NextRace ==
    \/ CreateTicket
    \/ ChangeStatus
    \/ StaffLoad
    \/ StaffCommit
    \/ Tick

SpecRace == Init /\ [][NextRace]_vars

----------------------------------------------------------------------------
(* Properties *)

IsOwner(u, tid) == u \in Staff /\ tickets[tid].staff_id = u

\* the number of reminders for ticket tid among the mails of box
RemindersFor(box, tid) ==
    Cardinality({ i \in 1..Len(box) :
                    box[i].kind = "[Reminder]" /\ box[i].ticket_id = tid })

\* C1: a reopen by the ticket's owner sets the status to In Progress when the
\* ticket is Solved or Closed; when it is Open or In Progress the request is
\* answered "Invalid action for current status." and the ticket is unchanged.
C1_ReopenOnlyFromSolvedOrClosed ==
    [][\A u \in Users, tid \in TicketIds :
          (staff_action(u, tid, "reopen") /\ IsOwner(u, tid)) =>
              IF tickets[tid].status \in {"Solved", "Closed"}
              THEN /\ tickets'[tid].status = "In Progress"
                   /\ response'.flash = "Ticket reopened and set to In Progress."
              ELSE /\ tickets[tid].status \in {"Open", "In Progress"}
                   /\ response'.flash = "Invalid action for current status."
                   /\ tickets'[tid].status = tickets[tid].status
                   /\ tickets'[tid].due_time = tickets[tid].due_time
                   /\ tickets' = tickets]_vars

\* a reopen was refused on an Open or In Progress ticket
C1_Witness ==
    /\ response.op = "staff_action"
    /\ response.action = "reopen"
    /\ response.flash = "Invalid action for current status."
    /\ \E tid \in TicketIds : tickets[tid].status \in {"Open", "In Progress"}

\* C2: an approve_close by the ticket's owner sets the status to Closed when
\* the ticket is Open, In Progress or Solved; on a Closed ticket it is answered
\* "Invalid action for current status." and the ticket is unchanged.
C2_ApproveCloseNotFromClosed ==
    [][\A u \in Users, tid \in TicketIds :
          (staff_action(u, tid, "approve_close") /\ IsOwner(u, tid)) =>
              IF tickets[tid].status \in {"Open", "In Progress", "Solved"}
              THEN /\ tickets'[tid].status = "Closed"
                   /\ response'.flash = "Ticket closed."
              ELSE /\ tickets[tid].status = "Closed"
                   /\ response'.flash = "Invalid action for current status."
                   /\ tickets' = tickets]_vars

\* an approve_close was refused on a Closed ticket
C2_Witness ==
    /\ response.op = "staff_action"
    /\ response.action = "approve_close"
    /\ response.flash = "Invalid action for current status."
    /\ \E tid \in TicketIds : tickets[tid].status = "Closed"

\* C3: a status change asked for by a staff account is answered
\* "Not authorized." and changes no ticket, whatever the ticket, its status and
\* the status asked for.
C3_StaffCannotChangeStatus ==
    [][\A u \in Staff, tid \in IdInputs, new_status \in StatusInputs :
          admin_update_status(u, tid, new_status) =>
              /\ response'.flash = "Not authorized."
              /\ tickets' = tickets]_vars

\* a status change on an existing ticket was refused as not authorized
C3_Witness ==
    /\ response.op = "admin_update_status"
    /\ response.flash = "Not authorized."
    /\ Len(tickets) > 0

\* C4: every comment was written by an admin or by the owner of its ticket.
C4_CommentAuthorsMayView ==
    \A i \in 1..Len(comments) :
        \/ comments[i].user_id \in Admins
        \/ tickets[comments[i].ticket_id].staff_id = comments[i].user_id

\* C5: a created ticket is Open and is due at its creation instant plus two
\* hours for Urgent, seven days for "7 Days" and three days for anything else.
C5_CreateDueTime ==
    [][Len(tickets') = Len(tickets) + 1 =>
          LET t == tickets'[Len(tickets')] IN
          /\ t.status = "Open"
          /\ t.created_at = NowPK
          /\ t.due_time = t.created_at +
                (CASE t.priority = "Urgent" -> 2
                   [] t.priority = "7 Days" -> 7 * 24
                   [] OTHER -> 3 * 24)]_vars

\* a "15 Days" ticket was created and is due three days after its creation
C5_Witness ==
    /\ response.op = "create_ticket"
    /\ response.flash = "Ticket created successfully."
    /\ \E tid \in TicketIds :
          /\ tickets[tid].priority = "15 Days"
          /\ tickets[tid].due_time = tickets[tid].created_at + 3 * 24

\* a step in which the owner's reopen of ticket tid succeeded
Reopened(tid) ==
    /\ \E u \in Users : staff_action(u, tid, "reopen")
    /\ response'.flash = "Ticket reopened and set to In Progress."

\* C6 as stated: a reopen at T makes the ticket due at T plus two hours for
\* Urgent and T plus seven days for every other priority, "15 Days" included.
C6_ReopenSevenDayDefault ==
    [][\A tid \in TicketIds :
          Reopened(tid) =>
              /\ tickets'[tid].status = "In Progress"
              /\ tickets'[tid].due_time = NowPK +
                    (CASE tickets[tid].priority = "Urgent" -> 2
                       [] OTHER -> 7 * 24)]_vars

\* C6 amended: a reopen at T makes the ticket In Progress and due at T plus
\* two hours for Urgent, seven days for "7 Days", fifteen days for "15 Days"
\* and seven days for any other priority.
C6_ReopenDueTime ==
    [][\A tid \in TicketIds :
          Reopened(tid) =>
              /\ tickets'[tid].status = "In Progress"
              /\ tickets'[tid].due_time = NowPK +
                    (CASE tickets[tid].priority = "Urgent" -> 2
                       [] tickets[tid].priority = "7 Days" -> 7 * 24
                       [] tickets[tid].priority = "15 Days" -> 15 * 24
                       [] OTHER -> 7 * 24)]_vars

\* a "15 Days" ticket was just reopened and is due fifteen days from now
C6_Witness ==
    /\ response.op = "staff_action"
    /\ response.flash = "Ticket reopened and set to In Progress."
    /\ \E tid \in TicketIds :
          /\ tickets[tid].priority = "15 Days"
          /\ tickets[tid].status = "In Progress"
          /\ tickets[tid].due_time = NowPK + 15 * 24

\* C7: at the instant a ticket is created it is Open, it is due later than
\* now, the dashboards do not count it overdue and a reminder run would not
\* select it.
C7_NotOverdueAfterCreate ==
    [][Len(tickets') = Len(tickets) + 1 =>
          LET t == tickets'[Len(tickets')] IN
          /\ t.status = "Open"
          /\ t.due_time > NowPK
          /\ ~Overdue(t, DashboardNow)
          /\ ~Selected(t, utcnow)]_vars

\* an Urgent ticket was just created
C7_Witness ==
    /\ response.op = "create_ticket"
    /\ response.flash = "Ticket created successfully."
    /\ \E tid \in TicketIds :
          /\ tickets[tid].priority = "Urgent"
          /\ tickets[tid].created_at = NowPK

\* uploads whose extension is not on the allow-list
DisallowedFiles ==
    { <<"m","a","l","w","a","r","e",".","e","x","e">>,
      <<"r",".","p","d","f",".","e","x","e">>,
      <<"p","d","f">> }

\* C8: a complete form posted by a staff account with an upload whose
\* extension is not allowed is answered "Invalid attachment type.", stores no
\* ticket and sends no mail.
C8_InvalidAttachmentPersistsNothing ==
    [][\A u \in Staff, in \in CreateInputs :
          (/\ in.attachment \in DisallowedFiles
           /\ in.form = CompleteForm
           /\ create_ticket(u, in.form, in.priority, in.attachment)) =>
              /\ response'.flash = "Invalid attachment type."
              /\ tickets' = tickets
              /\ outbox' = <<>>]_vars

\* an upload was refused while no ticket is stored
C8_Witness ==
    /\ response.op = "create_ticket"
    /\ response.flash = "Invalid attachment type."
    /\ tickets = <<>>
    /\ outbox = <<>>

\* C9: a reminder run sends exactly one reminder, to the owner and the
\* operational mailbox, for every pending ticket whose due time is not later
\* than now, both in Pakistan time, and none for any other ticket; so every
\* ticket the dashboards count overdue is reminded.
C9_RunRemindsEveryOverdueTicket ==
    [][check_ticket_deadlines =>
          \A tid \in TicketIds :
              /\ RemindersFor(outbox', tid) =
                    (IF /\ tickets[tid].status \in {"Open", "In Progress", "Solved"}
                        /\ tickets[tid].due_time <= NowPK
                     THEN 1 ELSE 0)
              /\ Overdue(tickets[tid], DashboardNow) =>
                    RemindersFor(outbox', tid) = 1]_vars

\* C10: a reminder run sends one reminder for every pending ticket its query
\* finds past due, however many reminders the ticket already got; a ticket
\* the previous run reminded, and that is still pending, is reminded again.
C10_NoSuppression ==
    [][check_ticket_deadlines =>
          \A tid \in TicketIds :
              /\ (/\ tickets[tid].status \in {"Open", "In Progress", "Solved"}
                  /\ tickets[tid].due_time <= utcnow) =>
                    /\ RemindersFor(outbox', tid) = 1
                    /\ reminders'[tid] = reminders[tid] + 1
              /\ (/\ response.op = "check_ticket_deadlines"
                  /\ RemindersFor(outbox, tid) = 1) =>
                    /\ RemindersFor(outbox', tid) = 1
                    /\ reminders'[tid] = reminders[tid] + 1]_vars

\* two runs in a row each sent a reminder for the same ticket
C10_Witness ==
    /\ response.op = "check_ticket_deadlines"
    /\ \E tid \in TicketIds :
          /\ reminders[tid] = 2
          /\ RemindersFor(outbox, tid) = 1

\* C11: a reminder run changes no ticket and no comment.
C11_ReminderRunMutatesNothing ==
    [][check_ticket_deadlines =>
          /\ tickets' = tickets
          /\ comments' = comments]_vars

\* a run has just reminded a ticket that has a comment
C11_Witness ==
    /\ response.op = "check_ticket_deadlines"
    /\ Len(comments) > 0
    /\ \E tid \in TicketIds : RemindersFor(outbox, tid) = 1

\* C12: an approve_close or a reopen asked for by an admin, or by a staff
\* account that does not own the ticket, is answered "Not authorized." and
\* changes no ticket, whatever the ticket's status.
C12_StaffActionOwnerOnly ==
    [][\A u \in Users, tid \in TicketIds, action \in ActionInputs :
          (staff_action(u, tid, action) /\ ~IsOwner(u, tid)) =>
              /\ response'.flash = "Not authorized."
              /\ tickets' = tickets]_vars

\* a reopen of a Closed ticket was refused as not authorized
C12_Witness ==
    /\ response.op = "staff_action"
    /\ response.action = "reopen"
    /\ response.flash = "Not authorized."
    /\ \E tid \in TicketIds : tickets[tid].status = "Closed"

\* C13: a status change to anything but Open, In Progress or Solved is
\* answered "Invalid status." and changes no ticket; a ticket is created Open;
\* a ticket becomes Closed only in a step in which its owner's approve_close
\* is answered "Ticket closed.".
C13_ClosedOnlyByApproveClose ==
    [][/\ \A u \in Admins, tid \in TicketIds, new_status \in StatusInputs :
             (/\ new_status \notin {"Open", "In Progress", "Solved"}
              /\ admin_update_status(u, tid, new_status)) =>
                 /\ response'.flash = "Invalid status."
                 /\ tickets' = tickets
       /\ Len(tickets') > Len(tickets) =>
             tickets'[Len(tickets')].status # "Closed"
       /\ \A tid \in TicketIds :
             (tickets[tid].status # "Closed" /\ tickets'[tid].status = "Closed") =>
                 /\ response'.flash = "Ticket closed."
                 /\ \E u \in Staff :
                       /\ IsOwner(u, tid)
                       /\ staff_action(u, tid, "approve_close")]_vars

\* an admin's request for Closed was refused on a ticket that is not Closed
C13_Witness ==
    /\ response.op = "admin_update_status"
    /\ response.flash = "Invalid status."
    /\ \E tid \in TicketIds : tickets[tid].status # "Closed"

\* the number of mails of box that have addr among their recipients
MailsTo(box, addr) ==
    Cardinality({ i \in 1..Len(box) :
                    \E k \in 1..Len(box[i].recipients) :
                        box[i].recipients[k] = addr })

\* C14: a status change to Open, In Progress or Solved asked for by an admin
\* sets the ticket's status to it, is answered "Ticket status updated." and
\* hands over one mail, addressed to the ticket's owner, which is delivered
\* when the mail server delivers.
C14_ChangeStatusNotifiesOwnerOnce ==
    [][\A u \in Admins, tid \in TicketIds :
          \A new_status \in {"Open", "In Progress", "Solved"} :
              admin_update_status(u, tid, new_status) =>
                  /\ tickets'[tid].status = new_status
                  /\ response'.flash = "Ticket status updated."
                  /\ Len(outbox') = 1
                  /\ outbox'[1].kind = "[Ticket Update]"
                  /\ outbox'[1].delivered = sink
                  /\ MailsTo(outbox', EmailOf(tickets[tid].staff_id)) = 1]_vars

\* an admin has just set a ticket to Solved and its owner got the one mail
C14_Witness ==
    /\ response.op = "admin_update_status"
    /\ response.flash = "Ticket status updated."
    /\ \E tid \in TicketIds :
          /\ tickets[tid].status = "Solved"
          /\ MailsTo(outbox, EmailOf(tickets[tid].staff_id)) = 1
          /\ outbox[1].delivered

\* C16: whether the mail server delivers or not, a valid create stores the
\* ticket, a valid status change, approve_close and reopen write the status,
\* and each is answered as a success.
C16_MailFailureNotFatal ==
    [][/\ \A u \in Staff, in \in CreateInputs :
             (/\ in.form = CompleteForm
              /\ in.priority # ""
              /\ in.attachment \notin DisallowedFiles
              /\ create_ticket(u, in.form, in.priority, in.attachment)) =>
                 /\ Len(tickets') = Len(tickets) + 1
                 /\ response'.flash = "Ticket created successfully."
                 /\ Len(outbox') = 2
       /\ \A u \in Admins, tid \in TicketIds :
             \A new_status \in {"Open", "In Progress", "Solved"} :
                 admin_update_status(u, tid, new_status) =>
                     /\ tickets'[tid].status = new_status
                     /\ response'.flash = "Ticket status updated."
       /\ \A u \in Staff, tid \in TicketIds :
             (/\ IsOwner(u, tid)
              /\ tickets[tid].status # "Closed"
              /\ staff_action(u, tid, "approve_close")) =>
                 /\ tickets'[tid].status = "Closed"
                 /\ response'.flash = "Ticket closed."
       /\ \A u \in Staff, tid \in TicketIds :
             (/\ IsOwner(u, tid)
              /\ tickets[tid].status \in {"Solved", "Closed"}
              /\ staff_action(u, tid, "reopen")) =>
                 /\ tickets'[tid].status = "In Progress"
                 /\ response'.flash = "Ticket reopened and set to In Progress."]_vars

\* a ticket was created although neither of its two mails went through
C16_Witness ==
    /\ response.op = "create_ticket"
    /\ response.flash = "Ticket created successfully."
    /\ Len(tickets) = 1
    /\ Len(outbox) = 2
    /\ ~outbox[1].delivered
    /\ ~outbox[2].delivered

\* the messages of a refused request
RejectionFlashes ==
    { "Only staff can create tickets.",
      "All fields including priority are required.",
      "Invalid attachment type.",
      "Not authorized.",
      "Invalid status.",
      "Invalid action for current status.",
      "Comment cannot be empty.",
      "You are not allowed to view this ticket." }

\* C15: a step that ends with the answer of a refused request (a refusal
\* message or a 404) changes no ticket and no comment; a comment that is
\* blank after trimming is refused as empty and a form with a missing field
\* is refused as incomplete.
C15_RejectedLeavesStateUnchanged ==
    [][/\ (response'.flash \in RejectionFlashes \/ response'.redirect = "404") =>
             /\ tickets' = tickets
             /\ comments' = comments
       /\ response'.op = "add_comment" =>
             \A u \in Users, tid \in TicketIds, text \in MessageInputs :
                 (/\ \A i \in 1..Len(text) : text[i] = " "
                  /\ add_comment(u, tid, text)) =>
                     /\ response'.flash = "Comment cannot be empty."
                     /\ comments' = comments
       /\ response'.op = "create_ticket" =>
             \A u \in Staff, in \in CreateInputs :
                 (/\ (in.form # CompleteForm \/ in.priority = "")
                  /\ create_ticket(u, in.form, in.priority, in.attachment)) =>
                     /\ response'.flash =
                           "All fields including priority are required."
                     /\ tickets' = tickets]_vars

\* a blank comment on an existing ticket was refused
C15_Witness ==
    /\ response.op = "add_comment"
    /\ response.flash = "Comment cannot be empty."
    /\ Len(tickets) > 0
    /\ comments = <<>>

\* C17: every stored ticket has one of the three recognized priorities.
C17_PriorityRecognized ==
    \A tid \in TicketIds :
        tickets[tid].priority \in {"Urgent", "7 Days", "15 Days"}

\* C19: every stored ticket is Open, In Progress, Solved or Closed.
C19_StatusInRange ==
    \A tid \in TicketIds :
        tickets[tid].status \in {"Open", "In Progress", "Solved", "Closed"}

\* an admin's request for the legacy label Approved was refused
C19_Witness ==
    /\ response.op = "admin_update_status"
    /\ response.flash = "Invalid status."
    /\ \E tid \in TicketIds : tickets[tid].status = "Closed"

\* C20: no step removes a ticket or changes a ticket's id, owner or priority,
\* and a ticket's due_time changes only in a step in which a reopen is
\* answered as done.
C20_DueTimeWrittenOnlyByReopen ==
    [][/\ Len(tickets') >= Len(tickets)
       /\ \A tid \in TicketIds :
             /\ tickets'[tid].id = tickets[tid].id
             /\ tickets'[tid].staff_id = tickets[tid].staff_id
             /\ tickets'[tid].priority = tickets[tid].priority
             /\ tickets'[tid].created_at = tickets[tid].created_at
             /\ tickets'[tid].due_time # tickets[tid].due_time =>
                   /\ response'.op = "staff_action"
                   /\ response'.action = "reopen"
                   /\ response'.flash = "Ticket reopened and set to In Progress."]_vars

\* the page of an assigned and closed Urgent ticket was shown and the ticket
\* is still due two hours after its creation
C20_Witness ==
    /\ response.op = "view_ticket"
    /\ response.redirect = "view_ticket.html"
    /\ \E tid \in TicketIds :
          /\ tickets[tid].priority = "Urgent"
          /\ tickets[tid].status = "Closed"
          /\ tickets[tid].assigned_to # <<>>
          /\ tickets[tid].due_time = tickets[tid].created_at + 2

\* C18: when init-db has just run, exactly one account has role admin and it
\* is the account with the configured admin email.
C18_ExactlyOneSeedAdmin ==
    response.op = "init_db" =>
        /\ Cardinality({ i \in 1..Len(users) : users[i].role = "admin" }) = 1
        /\ \A i \in 1..Len(users) :
              users[i].role = "admin" <=> users[i].email = admin_email

\* C21: a reopen that takes effect is committed on a ticket whose stored
\* status is Solved or Closed at that moment, never on one that is Open or In
\* Progress (as it would be if the reopen ran wholly before or wholly after
\* every status change).
C21_ReopenNeverOverPending ==
    [][\A r \in inflight :
          (/\ r.action = "reopen"
           /\ staff_action_commit(r)
           /\ response'.flash = "Ticket reopened and set to In Progress.") =>
              tickets[r.ticket.id].status \notin {"Open", "In Progress"}]_vars

\* C22: whatever the ticket's status, Closed included, an admin's change to
\* Open, In Progress or Solved is answered "Ticket status updated." and writes
\* that status and nothing else, so the due_time stays and the reminder job
\* selects the ticket from then on exactly when that due_time has passed.
C22_ChangeStatusFromAnyStatus ==
    [][response'.op = "admin_update_status" =>
          \A u \in Admins, tid \in TicketIds :
              \A new_status \in {"Open", "In Progress", "Solved"} :
                  admin_update_status(u, tid, new_status) =>
                      /\ response'.flash = "Ticket status updated."
                      /\ tickets' = [tickets EXCEPT ![tid].status = new_status]
                      /\ Selected(tickets'[tid], utcnow) <=>
                            tickets[tid].due_time <= utcnow]_vars

\* an admin has set a ticket to a pending status that was Closed when its
\* owner's reopen, still uncommitted, loaded it; the due_time is the one
\* loaded, it has passed and the reminder job selects the ticket
C22_Witness ==
    /\ response.op = "admin_update_status"
    /\ response.flash = "Ticket status updated."
    /\ \E r \in inflight :
          /\ r.action = "reopen"
          /\ r.ticket.status = "Closed"
          /\ tickets[r.ticket.id].status \in {"Open", "In Progress", "Solved"}
          /\ tickets[r.ticket.id].due_time = r.ticket.due_time
          /\ Selected(tickets[r.ticket.id], utcnow)

====
